---- MODULE Spec2Model ----
(***************************************************************************)
(* GPT-2 pipeline-stage model (megatron/model/gpt2_model.py).              *)
(*                                                                         *)
(* A pipeline of num_stages ranks.  Rank 1 is the first stage, rank        *)
(* num_stages the last one (one rank alone is both).  Every rank runs      *)
(* GPT2ModelBase.__init__, whose only communication is the blocking        *)
(* all-reduce of the embedding weight over the embedding group.  The       *)
(* driver of rank `me` then calls the public methods of its instance       *)
(* (word_embeddings_weight, forward, state_dict_for_save_checkpoint,       *)
(* load_state_dict) in any order; these are rank-local.                    *)
(*                                                                         *)
(* Python values: None is <<>> and an optional value x is <<x>>; a tensor, *)
(* a pair and a raised exception are records tagged by `type`; a dict is a *)
(* function whose domain is its set of keys.                               *)
(***************************************************************************)
EXTENDS Integers, FiniteSets, Sequences, TLC

\* ------------------------------------------------------------------ bounds
MaxStages == 3
TableLen == 1
MaxVal == 1

Vals == 0..MaxVal
Table == [1..TableLen -> Vals]

None == <<>>
Some(x) == <<x>>

VARIABLES
    num_stages,             \* pipeline-parallel world size (topology)
    me,                     \* the rank whose driver is modelled
    args,                   \* get_args(): the run-wide configuration
    pc,                     \* per rank: "new", "all_reduce", "ready", "failed"
    parallel_output,        \* self.parallel_output
    fp16_lm_cross_entropy,  \* self.fp16_lm_cross_entropy
    language_model,         \* self.language_model (its state), None before
    word_embeddings,        \* self.word_embeddings.weight, None when absent
    contrib,                \* buffers handed to the embedding all-reduce
    all_reduce_calls,       \* per rank: calls of torch.distributed.all_reduce
    ret                     \* the last call made by the driver and its result

vars == <<num_stages, me, args, pc, parallel_output, fp16_lm_cross_entropy,
          language_model, word_embeddings, contrib, all_reduce_calls, ret>>

AllRanks == 1..MaxStages
Ranks == 1..num_stages

\* ------------------------------------------------------------ stage roles
is_inter_layer_first_stage(r) == r = 1
is_inter_layer_last_stage(r) == r = num_stages

StageRole(first, last) ==
    IF first /\ last THEN "Standalone"
    ELSE IF first THEN "First"
    ELSE IF last THEN "Last"
    ELSE "Intermediate"

RoleOf(r) == StageRole(is_inter_layer_first_stage(r), is_inter_layer_last_stage(r))
RoleNames == {"Standalone", "First", "Intermediate", "Last"}
IsFirst(role) == role \in {"First", "Standalone"}
IsLast(role) == role \in {"Last", "Standalone"}

get_embedding_group == {r \in Ranks : is_inter_layer_first_stage(r) \/ is_inter_layer_last_stage(r)}

\* ------------------------------------------------------------ python values
Error(exc, at) == [type |-> "error", exc |-> exc, at |-> at]
Tensor(kind, dtype, lm, weight, par, lab) ==
    [type |-> "tensor", kind |-> kind, dtype |-> dtype, lm |-> lm,
     weight |-> weight, parallel |-> par, labels |-> lab]
Float(x) == [x EXCEPT !.dtype = "float"]
Pair(a, b) == [type |-> "pair", fst |-> a, snd |-> b]
Param(owner, data) == [type |-> "param", owner |-> owner, data |-> data]

NoneVal == [type |-> "none"]
IsError(v) == v.type = "error"
IsPair(v) == v.type = "pair"
IsTensor(v) == v.type = "tensor"

\* ------------------------------------------------------- external modules
\* get_language_model(): the backbone of a stage.  A first stage owns the
\* input embedding table; every stage owns its transformer layers.
LanguageModelKey == "language_model"
EmbeddingKey == "embedding"
TransformerKey == "transformer"

get_language_model(first, e, t) ==
    IF first THEN (EmbeddingKey :> e) @@ (TransformerKey :> t)
    ELSE (TransformerKey :> t)

\* The transformer weights a fresh backbone starts with.  They reach this
\* module only through save and load, whose payloads range over all of Vals.
InitTransformer == {0}

\* init_method_normal: the values a freshly initialised embedding table may
\* hold, on the stages that own one.
InitTables(owns) == IF owns THEN Table ELSE {[i \in 1..TableLen |-> 0]}

BackboneKeys(role) ==
    IF IsFirst(role) THEN {EmbeddingKey, TransformerKey} ELSE {TransformerKey}

\* tensor.fill_(v)
\* (fill_noop: the fill left out)
fill_noop(t, v) == t
fill_(t, v) == [i \in DOMAIN t |-> v]

\* torch.distributed.all_reduce (sum) over the buffers of the group members
RECURSIVE SumBufs(_, _, _)
SumBufs(bufs, S, i) ==
    IF S = {} THEN 0
    ELSE LET m == CHOOSE x \in S : TRUE
         IN bufs[m][i] + SumBufs(bufs, S \ {m}, i)

all_reduce(bufs) == [i \in 1..TableLen |-> SumBufs(bufs, DOMAIN bufs, i)]

\* -------------------------------------------------------- GPT2ModelBase
\* __init__, line 83-84: the last stage that is not the first one owns a
\* standalone embedding table.
\* (HeadAllocAlways: the table allocated on every stage)
HeadAllocAlways(first, last) == TRUE
HeadAllocRequired(first, last) == last /\ ~first

\* __init__, line 95: the stages that take part in the embedding all-reduce.
\* (InitSyncFirstOnly: the last stage left out of the test)
InitSyncFirstOnly(first, last) == first
InitSyncRequired(first, last) == first \/ last

\* word_embeddings_weight(), lines 99-105
\* (word_embeddings_weight_noraise: the last-stage test and the raise left out)
word_embeddings_weight_noraise(first, last, lm, we) ==
    IF first THEN Param("backbone", lm[EmbeddingKey])
    ELSE IF we = None THEN Error("AttributeError", "word_embeddings_weight")
    ELSE Param("standalone", we[1])
word_embeddings_weight(first, last, lm, we) ==
    IF first THEN Param("backbone", lm[EmbeddingKey])
    ELSE IF last
         THEN IF we = None
              THEN Error("AttributeError", "word_embeddings_weight")
              ELSE Param("standalone", we[1])
         ELSE Error("Exception", "word_embeddings_weight")

\* The constructors of the stage classes: GPT2ModelFirstStage and
\* GPT2ModelIntermediateStage take no parallel_output and leave the default.
CtorParallelOutput(first, last) == IF last THEN BOOLEAN ELSE {TRUE}

\* __init__ up to the point where it blocks in all_reduce (or returns, on an
\* intermediate stage).
Construct(r) ==
    /\ r \in Ranks
    /\ pc[r] = "new"
    /\ \E e \in InitTables(is_inter_layer_first_stage(r)),
          w \in InitTables(~is_inter_layer_first_stage(r)
                           /\ is_inter_layer_last_stage(r)),
          t \in InitTransformer,
          po \in CtorParallelOutput(is_inter_layer_first_stage(r),
                                    is_inter_layer_last_stage(r)) :
        LET first == is_inter_layer_first_stage(r)
            last == is_inter_layer_last_stage(r)
            lm == get_language_model(first, e, t)
            we == IF HeadAllocRequired(first, last)
                  THEN Some(fill_(w, 0)) ELSE None
            wt == word_embeddings_weight(first, last, lm, we)
        IN /\ parallel_output' = [parallel_output EXCEPT ![r] = Some(po)]
           /\ fp16_lm_cross_entropy' =
                 [fp16_lm_cross_entropy EXCEPT ![r] = Some(args.fp16_lm_cross_entropy)]
           /\ language_model' = [language_model EXCEPT ![r] = Some(lm)]
           /\ word_embeddings' = [word_embeddings EXCEPT ![r] = we]
           /\ IF InitSyncRequired(first, last)
              THEN IF IsError(wt)
                   THEN /\ pc' = [pc EXCEPT ![r] = "failed"]
                        /\ UNCHANGED <<contrib, all_reduce_calls>>
                   ELSE /\ contrib' = [contrib EXCEPT ![r] = Some(wt.data)]
                        /\ all_reduce_calls' =
                              [all_reduce_calls EXCEPT ![r] = @ + 1]
                        /\ pc' = [pc EXCEPT ![r] = "all_reduce"]
              ELSE /\ pc' = [pc EXCEPT ![r] = "ready"]
                   /\ UNCHANGED <<contrib, all_reduce_calls>>
    /\ UNCHANGED <<num_stages, me, args, ret>>

\* The all-reduce returns on rank r once every member of the group has
\* entered it; the sum is written in place into the tensor r passed.
AllReduceReturn(r) ==
    /\ r \in Ranks
    /\ pc[r] = "all_reduce"
    /\ \A m \in get_embedding_group : contrib[m] # None
    /\ LET first == is_inter_layer_first_stage(r)
           last == is_inter_layer_last_stage(r)
           total == all_reduce([m \in get_embedding_group |-> contrib[m][1]])
           wt == word_embeddings_weight(first, last, language_model[r][1],
                                        word_embeddings[r])
       IN IF wt.owner = "backbone"
          THEN /\ language_model' =
                     [language_model EXCEPT ![r] =
                         Some([language_model[r][1] EXCEPT ![EmbeddingKey] = total])]
               /\ UNCHANGED word_embeddings
          ELSE /\ word_embeddings' = [word_embeddings EXCEPT ![r] = Some(total)]
               /\ UNCHANGED language_model
    /\ pc' = [pc EXCEPT ![r] = "ready"]
    /\ UNCHANGED <<num_stages, me, args, parallel_output, fp16_lm_cross_entropy,
                   contrib, all_reduce_calls, ret>>

\* ------------------------------------------------------------- forward
\* The backbone's forward: the hidden state computed by the stage's layers
\* from the call's arguments, with the decode cache when it is asked for.
language_model_forward(lm, margs, dtype, get_key_value) ==
    LET hidden == Tensor("hidden", dtype, [state |-> lm, args |-> margs],
                         None, None, None)
        presents == Tensor("presents", dtype, [state |-> lm, args |-> margs],
                           None, None, None)
    IN IF get_key_value THEN Pair(hidden, presents) ELSE hidden

\* parallel_lm_logits(input_, word_embeddings_weight, parallel_output)
parallel_lm_logits(input_, weight, par) ==
    Tensor("logits", input_.dtype, input_.lm, Some(weight.data), Some(par), None)

\* mpu.vocab_parallel_cross_entropy(logits, labels): the per-token loss
vocab_parallel_cross_entropy(logits, labels) ==
    Tensor("loss", "float", logits.lm, logits.weight, logits.parallel, labels)

\* post_language_model_processing, lines 44-45
\* (EffectiveParallelOutputTruthy: `if forward_method_parallel_output:`)
EffectiveParallelOutputTruthy(par, forward_method_parallel_output) ==
    IF forward_method_parallel_output # None /\ forward_method_parallel_output[1]
    THEN forward_method_parallel_output[1] ELSE par
EffectiveParallelOutput(par, forward_method_parallel_output) ==
    IF forward_method_parallel_output # None
    THEN forward_method_parallel_output[1] ELSE par

\* post_language_model_processing, lines 36-62.  A list has neither .dtype
\* nor .float(): reading them raises AttributeError.
post_language_model_processing(lm_output, labels, logit_weights, get_key_value, par, forward_method_parallel_output, fp16) ==
    LET hidden == IF get_key_value THEN lm_output.fst ELSE lm_output
        presents == IF get_key_value THEN lm_output.snd ELSE None
        po == EffectiveParallelOutput(par, forward_method_parallel_output)
        logits == parallel_lm_logits(hidden, logit_weights, po)
        output == IF get_key_value THEN Pair(logits, presents) ELSE logits
    IN IF labels = None THEN output
       ELSE IF fp16
            THEN IF ~IsTensor(output)
                 THEN Error("AttributeError", "output.dtype")
                 ELSE IF output.dtype # "half"
                      THEN Error("AssertionError", "output.dtype == torch.half")
                      ELSE vocab_parallel_cross_entropy(output, labels[1])
            ELSE IF ~IsTensor(output)
                 THEN Error("AttributeError", "output.float")
                 ELSE vocab_parallel_cross_entropy(Float(output), labels[1])

\* GPT2ModelBase.forward, lines 107-129
forward(first, last, lm, we, par, fp16, labels, dtype, get_key_value, forward_method_parallel_output) ==
    LET margs == IF first
                 THEN <<"input_ids", "position_ids", "attention_mask", "tokentype_ids">>
                 ELSE <<"hidden_state", "attention_mask">>
        lm_output == language_model_forward(lm, margs, dtype, get_key_value)
    IN IF last
       THEN post_language_model_processing(
                lm_output, labels, word_embeddings_weight(first, last, lm, we),
                get_key_value, par, forward_method_parallel_output, fp16)
       ELSE lm_output

Ready(r) == r = me /\ r \in Ranks /\ pc[r] = "ready"

Forward(r) ==
    /\ Ready(r)
    /\ \E labels \in {None, Some(1)}, dtype \in {"half", "float"},
          get_key_value \in BOOLEAN,
          fmpo \in {None, Some(TRUE), Some(FALSE)} :
        ret' = [op |-> "forward", rank |-> r,
                in |-> [labels |-> labels, dtype |-> dtype,
                        get_key_value |-> get_key_value,
                        forward_method_parallel_output |-> fmpo],
                out |-> forward(is_inter_layer_first_stage(r),
                                is_inter_layer_last_stage(r),
                                language_model[r][1], word_embeddings[r],
                                parallel_output[r][1],
                                fp16_lm_cross_entropy[r][1],
                                labels, dtype, get_key_value, fmpo)]
    /\ UNCHANGED <<num_stages, me, args, pc, parallel_output,
                   fp16_lm_cross_entropy, language_model, word_embeddings,
                   contrib, all_reduce_calls>>

WordEmbeddingsWeight(r) ==
    /\ Ready(r)
    /\ ret' = [op |-> "word_embeddings_weight", rank |-> r, in |-> None,
               out |-> word_embeddings_weight(is_inter_layer_first_stage(r),
                                              is_inter_layer_last_stage(r),
                                              language_model[r][1],
                                              word_embeddings[r])]
    /\ UNCHANGED <<num_stages, me, args, pc, parallel_output,
                   fp16_lm_cross_entropy, language_model, word_embeddings,
                   contrib, all_reduce_calls>>

\* ------------------------------------------------------- save and load
WordEmbeddingsForHeadKey == "word_embeddings_for_head"
WeightKey == "weight"

\* self.word_embeddings.state_dict()
word_embeddings_state_dict(we) == (WeightKey :> we[1])

\* self.language_model.state_dict_for_save_checkpoint(): the stage-scoped
\* state of the backbone.
language_model_state_dict_for_save_checkpoint(lm) == lm

\* state_dict_for_save_checkpoint, lines 131-142
\* (state_dict_for_save_checkpoint_nohead: the standalone table not saved)
state_dict_for_save_checkpoint_nohead(first, last, lm, we) ==
    (LanguageModelKey :> language_model_state_dict_for_save_checkpoint(lm))
state_dict_for_save_checkpoint(first, last, lm, we) ==
    LET state_dict_ ==
            (LanguageModelKey :> language_model_state_dict_for_save_checkpoint(lm))
    IN IF last /\ ~first
       THEN state_dict_ @@
            (WordEmbeddingsForHeadKey :> word_embeddings_state_dict(we))
       ELSE state_dict_

\* torch.nn.Module.load_state_dict of the embedding module: the matching
\* parameter is copied; strict mode raises on missing or unexpected keys.
word_embeddings_load_state_dict(we, sd, strict) ==
    [we |-> IF WeightKey \in DOMAIN sd THEN Some(sd[WeightKey]) ELSE we,
     out |-> IF strict /\ DOMAIN sd # {WeightKey}
             THEN Error("RuntimeError", "word_embeddings.load_state_dict")
             ELSE NoneVal]

\* The backbone's loader: a key mismatch is an error in strict mode and is
\* ignored key by key otherwise.
language_model_load_state_dict(lm, sd, strict) ==
    IF DOMAIN sd = DOMAIN lm
    THEN [lm |-> sd, out |-> NoneVal]
    ELSE IF strict
         THEN [lm |-> lm,
               out |-> Error("RuntimeError", "language_model.load_state_dict")]
         ELSE [lm |-> [k \in DOMAIN lm |->
                          IF k \in DOMAIN sd THEN sd[k] ELSE lm[k]],
               out |-> NoneVal]

\* load_state_dict, lines 144-153
\* (load_state_dict_lenient_head: the standalone key read only if present;
\*  load_state_dict_no_fallback: the backbone key always indexed)
load_state_dict_lenient_head(first, last, lm, we, state_dict, strict) ==
    LET er == IF last /\ ~first /\ WordEmbeddingsForHeadKey \in DOMAIN state_dict
              THEN word_embeddings_load_state_dict(
                       we, state_dict[WordEmbeddingsForHeadKey], strict)
              ELSE [we |-> we, out |-> NoneVal]
        sd == IF LanguageModelKey \in DOMAIN state_dict
              THEN state_dict[LanguageModelKey] ELSE state_dict
        lr == language_model_load_state_dict(lm, sd, strict)
    IN IF IsError(er.out) THEN [lm |-> lm, we |-> er.we, out |-> er.out]
       ELSE [lm |-> lr.lm, we |-> er.we, out |-> lr.out]
load_state_dict_no_fallback(first, last, lm, we, state_dict, strict) ==
    IF last /\ ~first /\ WordEmbeddingsForHeadKey \notin DOMAIN state_dict
    THEN [lm |-> lm, we |-> we,
          out |-> Error("KeyError", WordEmbeddingsForHeadKey)]
    ELSE LET er == IF last /\ ~first
                   THEN word_embeddings_load_state_dict(
                            we, state_dict[WordEmbeddingsForHeadKey], strict)
                   ELSE [we |-> we, out |-> NoneVal]
         IN IF IsError(er.out) THEN [lm |-> lm, we |-> er.we, out |-> er.out]
            ELSE IF LanguageModelKey \notin DOMAIN state_dict
                 THEN [lm |-> lm, we |-> er.we,
                       out |-> Error("KeyError", LanguageModelKey)]
                 ELSE LET lr == language_model_load_state_dict(
                                    lm, state_dict[LanguageModelKey], strict)
                      IN [lm |-> lr.lm, we |-> er.we, out |-> lr.out]
load_state_dict(first, last, lm, we, state_dict, strict) ==
    IF last /\ ~first /\ WordEmbeddingsForHeadKey \notin DOMAIN state_dict
    THEN [lm |-> lm, we |-> we,
          out |-> Error("KeyError", WordEmbeddingsForHeadKey)]
    ELSE LET er == IF last /\ ~first
                   THEN word_embeddings_load_state_dict(
                            we, state_dict[WordEmbeddingsForHeadKey], strict)
                   ELSE [we |-> we, out |-> NoneVal]
             sd == IF LanguageModelKey \in DOMAIN state_dict
                   THEN state_dict[LanguageModelKey] ELSE state_dict
             lr == language_model_load_state_dict(lm, sd, strict)
         IN IF IsError(er.out) THEN [lm |-> lm, we |-> er.we, out |-> er.out]
            ELSE [lm |-> lr.lm, we |-> er.we, out |-> lr.out]

Save(r) ==
    /\ Ready(r)
    /\ ret' = [op |-> "state_dict_for_save_checkpoint", rank |-> r, in |-> None,
               out |-> state_dict_for_save_checkpoint(
                           is_inter_layer_first_stage(r),
                           is_inter_layer_last_stage(r),
                           language_model[r][1], word_embeddings[r])]
    /\ UNCHANGED <<num_stages, me, args, pc, parallel_output,
                   fp16_lm_cross_entropy, language_model, word_embeddings,
                   contrib, all_reduce_calls>>

\* The models whose checkpoints are loaded: a model of the given role whose
\* weights all have the value v.
ModelStates(role) ==
    {[lm |-> get_language_model(IsFirst(role), [i \in 1..TableLen |-> v], v),
      we |-> IF role = "Last" THEN Some([i \in 1..TableLen |-> v]) ELSE None] :
        v \in Vals}

\* The payloads handed to load_state_dict: a checkpoint as saved, and the
\* same checkpoint with keys missing or with a malformed embedding entry.
Restrict(d, K) == [k \in K |-> d[k]]
Variants(saved) ==
    IF WordEmbeddingsForHeadKey \in DOMAIN saved
    THEN {"as_saved", "unwrapped", "no_head", "no_backbone_key", "bad_head"}
    ELSE {"as_saved", "unwrapped"}
Payload(saved, variant) ==
    CASE variant = "as_saved" -> saved
      [] variant = "unwrapped" -> saved[LanguageModelKey]
      [] variant = "no_head" ->
            Restrict(saved, DOMAIN saved \ {WordEmbeddingsForHeadKey})
      [] variant = "no_backbone_key" ->
            saved[LanguageModelKey] @@
            (WordEmbeddingsForHeadKey :> saved[WordEmbeddingsForHeadKey])
      [] variant = "bad_head" ->
            [saved EXCEPT ![WordEmbeddingsForHeadKey] =
                ("bias" :> saved[WordEmbeddingsForHeadKey][WeightKey])]

\* load_state_dict on rank r of the checkpoint a model of role `from` in
\* state s saved, in the given variant.
LoadFrom(r, from, s, variant, strict) ==
    LET saved == state_dict_for_save_checkpoint(IsFirst(from), IsLast(from),
                                                s.lm, s.we)
    IN /\ variant \in Variants(saved)
       /\ \E payload \in {Payload(saved, variant)} :
          \E res \in {load_state_dict(is_inter_layer_first_stage(r),
                                      is_inter_layer_last_stage(r),
                                      language_model[r][1], word_embeddings[r],
                                      payload, strict)} :
            /\ language_model' = [language_model EXCEPT ![r] = Some(res.lm)]
            /\ word_embeddings' = [word_embeddings EXCEPT ![r] = res.we]
            /\ ret' = [op |-> "load_state_dict", rank |-> r,
                       in |-> [from |-> from, variant |-> variant,
                               strict |-> strict, keys |-> DOMAIN payload],
                       out |-> res.out]
       /\ UNCHANGED <<num_stages, me, args, pc, parallel_output,
                      fp16_lm_cross_entropy, contrib, all_reduce_calls>>

LoadVariants == {"as_saved", "unwrapped", "no_head", "no_backbone_key", "bad_head"}

LoadStateDict(r) ==
    /\ Ready(r)
    /\ \E from \in RoleNames, variant \in LoadVariants, strict \in BOOLEAN :
         \E s \in ModelStates(from) : LoadFrom(r, from, s, variant, strict)

NoCall == [op |-> "none", rank |-> 0, in |-> None, out |-> NoneVal]

Init ==
    /\ num_stages \in 1..MaxStages
    /\ me \in 1..num_stages
    /\ args \in [fp16_lm_cross_entropy : BOOLEAN]
    /\ pc = [r \in AllRanks |-> "new"]
    /\ parallel_output = [r \in AllRanks |-> None]
    /\ fp16_lm_cross_entropy = [r \in AllRanks |-> None]
    /\ language_model = [r \in AllRanks |-> None]
    /\ word_embeddings = [r \in AllRanks |-> None]
    /\ contrib = [r \in AllRanks |-> None]
    /\ all_reduce_calls = [r \in AllRanks |-> 0]
    /\ ret = NoCall

\* The ranks whose constructors the instance of rank me synchronises with.
Peers == IF me \in get_embedding_group THEN get_embedding_group ELSE {me}

ConstructPeer(r) == r \in Peers /\ Construct(r)

\* The lifetime of the instance of rank me: its construction, in which the
\* other member of the embedding group takes part, then the calls its driver
\* makes.
Next ==
    \/ \E r \in AllRanks : ConstructPeer(r)
    \/ AllReduceReturn(me)
    \/ Forward(me)
    \/ WordEmbeddingsWeight(me)
    \/ Save(me)
    \/ LoadStateDict(me)

Spec == Init /\ [][Next]_vars

\* The construction of the whole pipeline: every rank runs __init__.
PipelineNext ==
    \/ \E r \in AllRanks : Construct(r)
    \/ \E r \in AllRanks : AllReduceReturn(r)

PipelineSpec == Init /\ [][PipelineNext]_vars

\* Every process runs its constructor to the end unless it blocks, and the
\* collective returns once all members have entered it.
LivePipelineSpec ==
    /\ PipelineSpec
    /\ \A r \in AllRanks : WF_vars(Construct(r)) /\ WF_vars(AllReduceReturn(r))

\* ------------------------------------------------------------ properties
FirstRank == CHOOSE r \in Ranks : is_inter_layer_first_stage(r)
LastRank == num_stages
Constructed(r) == pc[r] = "ready"

\* C1: in a pipeline whose first and last stage are different ranks, once
\* construction has completed on both, the last stage's standalone table
\* equals the first stage's backbone table element for element, and both
\* equal the table the first stage handed to the all-reduce.
C1_TablesEqualAfterInit ==
    (num_stages > 1 /\ Constructed(FirstRank) /\ Constructed(LastRank)) =>
        /\ word_embeddings[LastRank] # None
        /\ \A i \in 1..TableLen :
              /\ word_embeddings[LastRank][1][i] =
                    language_model[FirstRank][1][EmbeddingKey][i]
              /\ language_model[FirstRank][1][EmbeddingKey][i] =
                    contrib[FirstRank][1][i]

C1_Witness ==
    /\ num_stages > 1
    /\ Constructed(FirstRank) /\ Constructed(LastRank)
    /\ \E i \in 1..TableLen : contrib[FirstRank][1][i] # 0
    /\ word_embeddings[LastRank] = Some(contrib[FirstRank][1])

\* C2: word_embeddings_weight() raises the invalid-call error exactly on an
\* intermediate stage; it returns the backbone's input embedding whenever
\* the stage is the first one, and the standalone table only on a last stage
\* that is not the first.
C2_AccessorByRole ==
    ret.op = "word_embeddings_weight" =>
        LET r == ret.rank
            role == RoleOf(r)
        IN /\ (role = "Intermediate") <=> IsError(ret.out)
           /\ role = "Intermediate" =>
                 ret.out.exc = "Exception"
           /\ IsFirst(role) =>
                 /\ ret.out.type = "param"
                 /\ ret.out.owner = "backbone"
                 /\ ret.out.data = language_model[r][1][EmbeddingKey]
           /\ role = "Last" =>
                 /\ ret.out.type = "param"
                 /\ ret.out.owner = "standalone"
                 /\ ret.out.data = word_embeddings[r][1]

C2_Witness ==
    /\ ret.op = "word_embeddings_weight"
    /\ RoleOf(ret.rank) = "Intermediate"
    /\ IsError(ret.out)

\* C9: an instance whose stage is first or last issues the embedding
\* all-reduce exactly once, in its constructor, and every call of its
\* methods comes after that; no method issues it again; an intermediate
\* stage never issues it and never allocates the standalone table.
C9_AllReduceOnce ==
    /\ \A r \in AllRanks :
          LET syncing == r \in Ranks /\ (is_inter_layer_first_stage(r)
                                        \/ is_inter_layer_last_stage(r))
          IN /\ pc[r] # "failed"
             /\ pc[r] = "new" => all_reduce_calls[r] = 0
             /\ (syncing /\ pc[r] \in {"all_reduce", "ready"}) =>
                   all_reduce_calls[r] = 1
             /\ ~syncing =>
                   all_reduce_calls[r] = 0 /\ word_embeddings[r] = None
    /\ ret.op # "none" =>
          /\ pc[ret.rank] = "ready"
          /\ all_reduce_calls[ret.rank] =
                IF RoleOf(ret.rank) = "Intermediate" THEN 0 ELSE 1

C9_Witness ==
    /\ ret.op = "load_state_dict"
    /\ RoleOf(ret.rank) = "Last"
    /\ all_reduce_calls[ret.rank] = 1

\* C10: with every rank running its constructor under fair scheduling,
\* construction completes on every rank; only the members of the embedding
\* group enter the all-reduce.
C10_ConstructionCompletes ==
    /\ [](\A r \in AllRanks : contrib[r] # None => r \in get_embedding_group)
    /\ <>(\A r \in Ranks : Constructed(r))

C10_Witness ==
    /\ num_stages >= 3
    /\ \A r \in Ranks : Constructed(r)
    /\ \A r \in Ranks : (contrib[r] # None) <=> (r \in get_embedding_group)

\* The embedding weight the logits of rank r are projected with.
LogitWeightOf(r) ==
    IF is_inter_layer_first_stage(r)
    THEN language_model[r][1][EmbeddingKey]
    ELSE word_embeddings[r][1]

IsKind(v, kind) == IsTensor(v) /\ v.kind = kind

\* C3: forward with get_key_value=False never returns a pair; with
\* get_key_value=True it always returns a pair whose second element is the
\* decode cache the backbone produced.
C3_PairIffKeyValue ==
    ret.op = "forward" =>
        IF ret.in.get_key_value
        THEN /\ IsPair(ret.out)
             /\ IsKind(ret.out.snd, "presents")
             /\ ret.out.snd.lm.state = language_model[ret.rank][1]
        ELSE ~IsPair(ret.out)

\* C4: on a last or standalone stage forward returns the logits projected
\* with the embedding weight when labels is None and the per-token loss,
\* never the logits, when labels are given (the documented precision
\* assertion apart); on any other stage it returns the backbone output and
\* computes neither projection nor loss.
C4_LogitsOrLoss ==
    ret.op = "forward" =>
        LET r == ret.rank
            head == IF IsPair(ret.out) THEN ret.out.fst ELSE ret.out
            precision == /\ fp16_lm_cross_entropy[r][1]
                         /\ ret.in.dtype # "half"
                         /\ IsError(ret.out)
                         /\ ret.out.exc = "AssertionError"
        IN IF IsLast(RoleOf(r))
           THEN IF ret.in.labels = None
                THEN /\ IsKind(head, "logits")
                     /\ head.weight = Some(LogitWeightOf(r))
                ELSE \/ /\ IsKind(ret.out, "loss")
                        /\ ret.out.weight = Some(LogitWeightOf(r))
                        /\ ret.out.labels = ret.in.labels[1]
                     \/ precision
           ELSE /\ IsKind(head, "hidden")
                /\ head.weight = None

\* C5: the output-parallelism flag of a call's logits projection is the
\* call's forward_method_parallel_output when it is given (True or False)
\* and the instance default otherwise, and no call changes the default.
C5_FlagOfCall ==
    (/\ ret.op = "forward"
     /\ IsLast(RoleOf(ret.rank))
     /\ ~IsError(ret.out)) =>
        LET head == IF IsPair(ret.out) THEN ret.out.fst ELSE ret.out
            fmpo == ret.in.forward_method_parallel_output
        IN head.parallel =
              IF fmpo # None THEN fmpo ELSE parallel_output[ret.rank]

C5_DefaultKept ==
    \A r \in AllRanks :
        parallel_output[r] # None => parallel_output'[r] = parallel_output[r]

\* C5: both parts, over every behaviour.
C5_OverrideOneCall == [](C5_FlagOfCall) /\ [][C5_DefaultKept]_vars

C5_Witness ==
    /\ ret.op = "forward"
    /\ IsLast(RoleOf(ret.rank))
    /\ ret.in.forward_method_parallel_output = Some(FALSE)
    /\ parallel_output[ret.rank] = Some(TRUE)
    /\ IsKind(ret.out, "logits")
    /\ ret.out.parallel = Some(FALSE)

\* C6: loading, on a model of some role, the dict a model of the same role
\* saved succeeds and leaves the loading model with the saving model's
\* backbone state and, on a last stage that is not the first, with its
\* standalone table, so that forward gives what it gave on the saving model.
C6_LoadOfSaved ==
    (/\ Ready(me)
     /\ ret'.op = "load_state_dict"
     /\ ret'.in.variant = "as_saved"
     /\ ret'.in.from = RoleOf(me)) =>
        \A s \in ModelStates(RoleOf(me)) :
            LoadFrom(me, RoleOf(me), s, "as_saved", ret'.in.strict) =>
                /\ ret'.out = NoneVal
                /\ language_model'[me] = Some(s.lm)
                /\ word_embeddings'[me] = s.we
                /\ \A get_key_value \in BOOLEAN :
                      forward(is_inter_layer_first_stage(me),
                              is_inter_layer_last_stage(me),
                              language_model'[me][1], word_embeddings'[me],
                              parallel_output[me][1],
                              fp16_lm_cross_entropy[me][1],
                              None, "half", get_key_value, None)
                      = forward(is_inter_layer_first_stage(me),
                                is_inter_layer_last_stage(me), s.lm, s.we,
                                parallel_output[me][1],
                                fp16_lm_cross_entropy[me][1],
                                None, "half", get_key_value, None)

\* C6: every load_state_dict step satisfies C6_LoadOfSaved.
C6_RoundTrip == [][C6_LoadOfSaved]_vars

C6_Witness ==
    /\ ret.op = "load_state_dict"
    /\ ret.in.from = "Last" /\ RoleOf(ret.rank) = "Last"
    /\ ret.in.variant = "as_saved"
    /\ ret.out = NoneVal
    /\ word_embeddings[ret.rank] # contrib[FirstRank]

LacksHead(keys) == WordEmbeddingsForHeadKey \notin keys
LacksBackbone(keys) == LanguageModelKey \notin keys
IsKeyError(v) == IsError(v) /\ v.exc = "KeyError"
Loaders == {"word_embeddings.load_state_dict", "language_model.load_state_dict"}

\* C7 as stated: on every stage, a payload that lacks the backbone key, the
\* standalone-embedding key, or both does not fail at the key lookup.
C7_NoLookupFailure ==
    (/\ ret.op = "load_state_dict"
     /\ LacksHead(ret.in.keys) \/ LacksBackbone(ret.in.keys)) =>
        ~IsKeyError(ret.out)

\* C7 as amended: a payload that lacks the backbone key is passed whole to
\* the backbone loader; on a last stage that is not the first a payload that
\* lacks the standalone-embedding key fails at the key lookup; in every
\* other case an error comes from one of the two loaders.
C7_FallbackForBackboneKeyOnly ==
    (/\ ret.op = "load_state_dict"
     /\ LacksHead(ret.in.keys) \/ LacksBackbone(ret.in.keys)) =>
        LET role == RoleOf(ret.rank)
            keys == ret.in.keys
        IN IF role = "Last" /\ LacksHead(keys)
           THEN IsKeyError(ret.out) /\ ret.out.at = WordEmbeddingsForHeadKey
           ELSE /\ IsError(ret.out) => ret.out.at \in Loaders
                /\ LacksBackbone(keys) =>
                      ((ret.out = NoneVal) <=>
                          (~ret.in.strict \/ keys = BackboneKeys(role)))

C7_Witness ==
    /\ ret.op = "load_state_dict"
    /\ RoleOf(ret.rank) = "Last"
    /\ ret.in.variant = "unwrapped"
    /\ IsKeyError(ret.out)

\* C8 as stated: a dict saved by a model of role R is accepted only by a
\* model of role R (a dict of a standalone model also by a role that
\* includes both first and last); every other role rejects it.
C8_OnlySameRole ==
    (/\ ret.op = "load_state_dict"
     /\ ret.in.variant = "as_saved"
     /\ ret.out = NoneVal) =>
        \/ ret.in.from = RoleOf(ret.rank)
        \/ /\ ret.in.from = "Standalone"
           /\ IsFirst(RoleOf(ret.rank)) /\ IsLast(RoleOf(ret.rank))

\* C8 as amended: a saved dict is accepted by a model of the saver's role; a
\* last stage that is not the first rejects, at the key lookup, the dict of
\* every other role; a model of any other role accepts or rejects as the
\* backbone loader does for the dict's backbone entry, whatever role saved it.
C8_AcceptanceByKeys ==
    (/\ ret.op = "load_state_dict"
     /\ ret.in.variant = "as_saved") =>
        LET role == RoleOf(ret.rank)
            from == ret.in.from
        IN /\ from = role => ret.out = NoneVal
           /\ (role = "Last" /\ from # "Last") =>
                 IsKeyError(ret.out) /\ ret.out.at = WordEmbeddingsForHeadKey
           /\ role # "Last" =>
                 /\ (ret.out = NoneVal) <=>
                       (~ret.in.strict \/ BackboneKeys(from) = BackboneKeys(role))
                 /\ IsError(ret.out) =>
                       ret.out.at = "language_model.load_state_dict"

C8_Witness ==
    /\ ret.op = "load_state_dict"
    /\ ret.in.variant = "as_saved"
    /\ ret.in.from = "Last"
    /\ RoleOf(ret.rank) = "Intermediate"
    /\ ret.in.strict
    /\ ret.out = NoneVal

====
